---- MODULE Spec2Model ----
(***************************************************************************)
(* The observation pipeline of metrics_tracing_example:                    *)
(*   SysMonitor (monitor.rs) --mpsc(2)--> SysStats (stats.rs)              *)
(*        --optional outbound mpsc--> a downstream consumer (examples/)    *)
(* supervised by the task run_observations spawns (lib.rs).                *)
(* An Observation (obs.rs) owns its readings and one handle of its span;   *)
(* the span closes when its last handle is dropped.                        *)
(***************************************************************************)
EXTENDS Integers, Sequences, FiniteSets, TLC

\* ---------------------------------------------------------------- bounds
\* Number of ticks of the interval timer that are explored.
MaxTicks == 12
\* Stand-in for the 2^64 of u64::wrapping_add, small enough to wrap.
CounterMod == 8

\* ------------------------------------------------------ program constants
\* mpsc::channel(2) between the monitor and the stats processor.
ChannelCapacity == 2
\* The window depth tested in SysStats::spawn.
WindowCapacity == 10
\* mpsc::channel(2) the examples hand to run_observations.
OutboundCapacity == 2

VARIABLES
    system,            \* SysMonitor.system: the sysinfo System
    counter,           \* SysMonitor.counter
    monitorPc,         \* SysMonitor task: "tick" | "send" | "done"
    pending,           \* the Observation the monitor is sending (or NoObs)
    chan,              \* buffer of the monitor -> stats channel
    txOpen,            \* the channel's Sender (SysMonitor.outbound) is alive
    rxOpen,            \* the channel's Receiver (SysStats.inbound) is alive
    statsPc,           \* SysStats task: "recv" | "process" | "forward" | "done"
    cur,               \* the Observation the stats loop holds (or NoObs)
    previous_obs,      \* SysStats.previous_obs
    outbound,          \* SysStats.outbound: "None" | "Some" | "Dropped"
    down,              \* buffer of the outbound channel
    downRxOpen,        \* the outbound channel's Receiver is alive
    held,              \* the Observation the downstream consumer holds
    superPc,           \* the select! task: "select" | "done" | "cancelled"
    callerHandle,      \* the JoinHandle given to the caller: "held" | "dropped"
    metrics,           \* the metrics recorder: made, live, samples
    spans,             \* every span opened for an Observation, in creation order
    received,          \* history: spans of the Observations SysStats received
    processed,         \* history: the Observations SysStats ran stats for
    forwarded,         \* history: spans sent on the outbound channel
    delivered,         \* history: spans the downstream consumer received
    forwardFailed,     \* history: an outbound send has failed
    entered,           \* per thread, the spans entered on it (the current span last)
    consumer,          \* the downstream loop: "none" | "good" | "holding"
    obs_collection     \* bad_holding_span: the Observations main keeps

vars == << system, counter, monitorPc, pending, chan, txOpen, rxOpen, statsPc,
           cur, previous_obs, outbound, down, downRxOpen, held, superPc,
           callerHandle, metrics, spans, received, processed, forwarded,
           delivered, forwardFailed, entered, consumer, obs_collection >>

\* ------------------------------------------------------------- readings
\* The sysinfo System: how many CPUs it lists and the load it reports.
\* The usage a refresh reads is base + step * (number of refreshes), which
\* makes successive batches of a stepping system pairwise different;
\* refreshes counts the calls of refresh_cpu_all.
Systems ==
    { [ncpu |-> 0, base |-> 0,  step |-> 0, freq |-> 0,    refreshes |-> 0],
      [ncpu |-> 1, base |-> 10, step |-> 0, freq |-> 2000, refreshes |-> 0],
      [ncpu |-> 2, base |-> 0,  step |-> 7, freq |-> 1500, refreshes |-> 0] }

refresh_cpu_all(sys) == [sys EXCEPT !.refreshes = @ + 1]

\* cpu.cpu_usage() of CPU i, a percentage.
CpuUsage(sys, i) == (sys.base + sys.step * sys.refreshes + 10 * (i - 1)) % 101

\* system.cpus().iter().map(..).collect()
CollectCpus(sys) ==
    [i \in 1..sys.ncpu |->
        [name |-> i, usage |-> CpuUsage(sys, i), frequency |-> sys.freq + 100 * (i - 1)]]

\* ---------------------------------------------------------------- spans
NoSpan == 0
NoObs == [cpus |-> <<>>, span |-> NoSpan]
NoFields == <<>>

\* The current span of a thread is thread-local: the span entered last on
\* that thread, if any.
NoParent == "none"
CurrentSpan(stack) == IF stack = <<>> THEN NoParent ELSE stack[Len(stack)]

\* The thread that polls a task made by tokio::spawn.  Under
\* #[tokio::main] (the multi-thread runtime) that is a worker thread of
\* the runtime; the thread that runs main polls only main's own future.
Threads == {"main", "worker"}
SpawnedTaskThread == "worker"

\* info_span!("Observation", observation_id = id): one handle, open; its
\* parent is the current span of the thread that creates it.
SpanNew(sp, id, parent) ==
    Append(sp, [observation_id |-> id, parent |-> parent, handles |-> 1,
                closed |-> FALSE, drops |-> 0, trail |-> <<>>])

\* What happens to a span, in order: trace events recorded while it is
\* entered, metric updates made for its Observation, and its closing.
\* open tells whether the span was still open at that moment.
TrailAppend(rec, op, msg, scope, fields) ==
    [rec EXCEPT !.trail =
        Append(@, [op |-> op, msg |-> msg, scope |-> scope,
                   open |-> ~rec.closed, fields |-> fields])]
Record(sp, s, op, msg, scope, fields) ==
    [sp EXCEPT ![s] = TrailAppend(@, op, msg, scope, fields)]

\* span.in_scope(|| event!(msg, fields))
InScopeEvent(sp, s, msg, scope, fields) == Record(sp, s, "event", msg, scope, fields)

\* Span::clone
SpanCloneHandle(sp, s) ==
    IF s = NoSpan THEN sp ELSE [sp EXCEPT ![s].handles = @ + 1]

\* Drop for tracing::Span: the span closes with its last handle.
ReleaseHandle(rec) ==
    IF rec.handles = 1
    THEN [TrailAppend(rec, "close", "", <<>>, NoFields)
              EXCEPT !.handles = 0, !.closed = TRUE]
    ELSE [rec EXCEPT !.handles = @ - 1]
SpanDropHandle(sp, s) ==
    IF s = NoSpan THEN sp ELSE [sp EXCEPT ![s] = ReleaseHandle(@)]

\* -------------------------------------------------------------- metrics
\* The recorder state threaded through Observation::new and drop:
\* the instruments [made, live, samples] together with the span table.
World(m, sp) == [metrics |-> m, spans |-> sp]

\* metrics::record_observation: the counter, the gauge and two histogram
\* samples for every reading.
record_observation(w, cpus, s) ==
    [w EXCEPT !.metrics = [made    |-> @.made + 1,
                           live    |-> @.live + 1,
                           samples |-> @.samples + 2 * Len(cpus)],
              !.spans = Record(@, s, "gauge_inc", "", <<>>, NoFields)]

\* Observation::new
ObservationNew(w, cpus, s) ==
    [obs |-> [cpus |-> cpus, span |-> s], world |-> record_observation(w, cpus, s)]

\* gauge!("my_cute_app.observations_live").decrement(1)
GaugeDecrement(w, s) ==
    [w EXCEPT !.metrics.live = @ - 1,
              !.spans = Record(@, s, "gauge_dec", "", <<>>, NoFields)]

\* The three effects of disposing an Observation, each on the world.
DropEvent(w, obs) ==
    [w EXCEPT !.spans =
        InScopeEvent(@, obs.span, "Dropping observation", <<>>, NoFields)]
\* Faulty variant of DropGauge: the decrement is forgotten.
DropGaugeSkipped(w, obs) == w
DropGauge(w, obs) == GaugeDecrement(w, obs.span)
DropFields(w, obs) == [w EXCEPT !.spans = SpanDropHandle(@, obs.span)]

\* Faulty variant of DropObservation: the gauge is decremented before the event
\* is recorded.
DropObservationGaugeFirst(w, obs) ==
    [DropFields(DropEvent(DropGauge(w, obs), obs), obs)
        EXCEPT !.spans[obs.span].drops = @ + 1]

\* impl Drop for Observation: the body of drop (event, then gauge), then
\* the fields are dropped, span last.
DropObservation(w, obs) ==
    [DropFields(DropGauge(DropEvent(w, obs), obs), obs)
        EXCEPT !.spans[obs.span].drops = @ + 1]

\* Faulty variant of DropAll: what is buffered is forgotten, not dropped.
DropAllLeaks(w, buf) == w
\* Dropping every Observation of a buffer, front first.
RECURSIVE DropAll(_, _)
DropAll(w, buf) ==
    IF buf = <<>> THEN w ELSE DropAll(DropObservation(w, Head(buf)), Tail(buf))

\* ------------------------------------------------------------- channels
\* Faulty variant of HasRoom: one slot too many.
HasRoomOffByOne(buf, cap) == Len(buf) <= cap
\* Sender::send completes when the buffer has a free slot.
HasRoom(buf, cap) == Len(buf) < cap
\* Faulty variant of ChanPush: the message jumps the queue.
ChanPushFront(buf, obs) == <<obs>> \o buf
ChanPush(buf, obs) == Append(buf, obs)
ChanFront(buf) == Head(buf)
\* Faulty variant of ChanPop: the received message stays in the buffer.
ChanPopKeeps(buf) == buf
ChanPop(buf) == Tail(buf)

\* What the caller of run_observations has entered on its thread: nothing
\* (good_tracing.rs) or a span it never exits (bad_program_span.rs).
CallerSpans == { <<>>, << "my_forever_span" >> }

Init ==
    /\ system \in Systems
    /\ counter = 0
    /\ monitorPc = "tick"
    /\ pending = NoObs
    /\ chan = <<>>
    /\ txOpen = TRUE
    /\ rxOpen = TRUE
    /\ statsPc = "recv"
    /\ cur = NoObs
    /\ previous_obs = <<>>
    /\ outbound \in {"None", "Some"}
    /\ down = <<>>
    /\ downRxOpen = (outbound = "Some")
    /\ held = NoObs
    /\ superPc = "select"
    /\ callerHandle = "held"
    /\ metrics = [made |-> 0, live |-> 0, samples |-> 0]
    /\ spans = <<>>
    /\ received = <<>>
    /\ processed = <<>>
    /\ forwarded = <<>>
    /\ delivered = <<>>
    /\ forwardFailed = FALSE
    /\ \E callerSpans \in CallerSpans :
          entered = [th \in Threads |-> IF th = "main" THEN callerSpans ELSE <<>>]
    /\ consumer \in (IF outbound = "Some" THEN {"good", "holding"} ELSE {"none"})
    /\ obs_collection = <<>>

\* ----------------------------------------------------------- SysMonitor
\* Faulty variant of wrapping_add: the counter sticks at its maximum.
saturating_add(c, n) == IF c + n >= CounterMod THEN CounterMod - 1 ELSE c + n
\* u64::wrapping_add, with CounterMod for 2^64.
wrapping_add(c, n) == (c + n) % CounterMod

\* SysMonitor::take_observation, run inside the new span s.
take_observation(sys, c, sp, s) ==
    LET sys2 == refresh_cpu_all(sys)
        sp2  == InScopeEvent(sp, s, "Refreshed CPU information",
                             <<"Taking observation">>, NoFields)
    IN  [system |-> sys2, cpus |-> CollectCpus(sys2),
         counter |-> wrapping_add(c, 1), spans |-> sp2]

\* One pass of the loop from interval.tick() to the send.
MonitorTick ==
    /\ monitorPc = "tick"
    /\ Len(spans) < MaxTicks
    /\ LET sp1 == SpanNew(spans, counter, CurrentSpan(entered[SpawnedTaskThread]))
           s   == Len(sp1)
           sp2 == InScopeEvent(sp1, s, "Taking observation", <<>>, NoFields)
           t   == take_observation(system, counter, sp2, s)
           n   == ObservationNew(World(metrics, t.spans), t.cpus, s)
       IN  /\ system' = t.system
           /\ counter' = t.counter
           /\ pending' = n.obs
           /\ metrics' = n.world.metrics
           /\ spans' = n.world.spans
    /\ monitorPc' = "send"
    /\ UNCHANGED << chan, txOpen, rxOpen, statsPc, cur, previous_obs, outbound,
                    down, downRxOpen, held, superPc, callerHandle, received,
                    processed, forwarded, delivered, forwardFailed,
                    entered, consumer, obs_collection >>

\* Faulty variant of MonitorAfterSendError: the loop carries on (continue).
MonitorAfterSendErrorContinue == "tick"
\* What the monitor loop does when send(obs) is an error: break.
MonitorAfterSendError == "done"

\* self.outbound.send(obs).await
MonitorSend ==
    /\ monitorPc = "send"
    /\ IF ~rxOpen
       THEN \* SendError: the Observation is dropped, the loop breaks and
            \* the task drops the SysMonitor with its Sender.
            LET w == DropObservation(World(metrics, spans), pending)
            IN  /\ metrics' = w.metrics
                /\ spans' = w.spans
                /\ pending' = NoObs
                /\ monitorPc' = MonitorAfterSendError
                /\ txOpen' = (monitorPc' # "done")
                /\ chan' = chan
       ELSE /\ HasRoom(chan, ChannelCapacity)
            /\ chan' = ChanPush(chan, pending)
            /\ pending' = NoObs
            /\ monitorPc' = "tick"
            /\ UNCHANGED << metrics, spans, txOpen >>
    /\ UNCHANGED << system, counter, rxOpen, statsPc, cur, previous_obs,
                    outbound, down, downRxOpen, held, superPc, callerHandle,
                    received, processed, forwarded, delivered, forwardFailed,
                    entered, consumer, obs_collection >>

\* ------------------------------------------------------------- SysStats
\* Faulty variant of ObsClone: the window keeps the Observation's span with the
\* readings (the mistake the comment on previous_obs warns of).
ObsCloneKeepsSpan(obs) == [cpus |-> obs.cpus, span |-> obs.span]
\* (*obs).clone(): a copy of the readings; it holds no span handle.
ObsClone(obs) == [cpus |-> obs.cpus, span |-> NoSpan]

\* The window update of SysStats::spawn: pop_front at depth 10, push_back.
\* Faulty variant of WindowEvicts: the test is one entry late.
WindowEvictsLate(win) == Len(win) = WindowCapacity + 1
WindowEvicts(win) == Len(win) = WindowCapacity
WindowPush(win, entry) ==
    Append(IF WindowEvicts(win) THEN Tail(win) ELSE win, entry)
WindowEvicted(win) == IF WindowEvicts(win) THEN Head(win).span ELSE NoSpan

\* Faulty variant of Flatten: only the newest batch is read.
FlattenNewestOnly(win) == win[Len(win)].cpus
\* previous_obs.iter().flat_map(|obs| obs.iter())
RECURSIVE Flatten(_)
Flatten(win) == IF win = <<>> THEN <<>> ELSE Head(win).cpus \o Flatten(Tail(win))

RECURSIVE SumUsage(_)
SumUsage(cs) == IF cs = <<>> THEN 0 ELSE Head(cs).usage + SumUsage(Tail(cs))
RECURSIVE SumFrequency(_)
SumFrequency(cs) == IF cs = <<>> THEN 0 ELSE Head(cs).frequency + SumFrequency(Tail(cs))

\* f64 division: a quotient num/den, an infinity for x/0.0, NaN for 0.0/0.0.
F64Div(a, b) ==
    IF b # 0 THEN [kind |-> "num", num |-> a, den |-> b]
    ELSE IF a # 0 THEN [kind |-> "inf", num |-> a, den |-> 0]
    ELSE [kind |-> "nan", num |-> 0, den |-> 0]

\* The fields of the event run_stats emits for window win.
StatsFields(win) ==
    LET all   == Flatten(win)
        count == Len(all)
    IN  [count            |-> Len(win),
         cpus             |-> F64Div(count, Len(win)),
         average_usage    |-> F64Div(SumUsage(all), count),
         average_freq_mhz |-> F64Div(SumFrequency(all), count)]

\* Faulty variant of run_stats: the event is emitted with no Observation
\* span entered, so no Observation's span records it.
run_stats_unentered(win, sp, s) == sp
\* SysStats::run_stats, called with span s entered.
run_stats(win, sp, s) ==
    InScopeEvent(sp, s, "finished cpu stats", <<"Computing stats">>, StatsFields(win))

\* Dropping previous_obs: every entry releases what it holds.
RECURSIVE WindowDrop(_, _)
WindowDrop(sp, win) ==
    IF win = <<>> THEN sp ELSE WindowDrop(SpanDropHandle(sp, Head(win).span), Tail(win))

\* Faulty variant of InboundAfterTaskEnd: the Receiver outlives the task.
InboundKeptAfterTaskEnd == TRUE
\* Whether the inbound Receiver is alive once the task has ended: it is a
\* field of the SysStats the task owns, and is dropped with it.
InboundAfterTaskEnd == FALSE

\* The task ends and drops the SysStats: inbound (the buffered
\* Observations are dropped with the Receiver), outbound, previous_obs.
StatsTaskEnd(w) ==
    LET w2 == DropAll(w, chan)
    IN  /\ metrics' = w2.metrics
        /\ spans' = WindowDrop(w2.spans, previous_obs)
        /\ chan' = <<>>
        /\ rxOpen' = InboundAfterTaskEnd
        /\ outbound' = IF outbound = "None" THEN "None" ELSE "Dropped"
        /\ previous_obs' = <<>>
        /\ cur' = NoObs
        /\ statsPc' = "done"

\* self.inbound.recv().await
StatsRecv ==
    /\ statsPc = "recv"
    /\ IF chan # <<>>
       THEN /\ cur' = ChanFront(chan)
            /\ chan' = ChanPop(chan)
            /\ received' = Append(received, ChanFront(chan).span)
            /\ statsPc' = "process"
            /\ UNCHANGED << metrics, spans, rxOpen, outbound, previous_obs >>
       ELSE \* None once every Sender is gone: the while-let loop ends.
            /\ ~txOpen
            /\ StatsTaskEnd(World(metrics, spans))
            /\ UNCHANGED received
    /\ UNCHANGED << system, counter, monitorPc, pending, txOpen, down,
                    downRxOpen, held, superPc, callerHandle, processed,
                    forwarded, delivered, forwardFailed,
                    entered, consumer, obs_collection >>

\* Faulty variant of in_scope_body: the closure is not run.
in_scope_body_skipped(prev, obs, sp) == [previous_obs |-> prev, spans |-> sp]
\* The closure SysStats::spawn runs inside obs.span(): the window update
\* (recorded on the entered span as "window"), then run_stats.
in_scope_body(prev, obs, sp) ==
    LET entry == ObsClone(obs)
        win   == WindowPush(prev, entry)
        sp1   == SpanDropHandle(sp, WindowEvicted(prev))
        sp2   == SpanCloneHandle(sp1, entry.span)
        sp3   == Record(sp2, obs.span, "window", "", <<>>, NoFields)
    IN  [previous_obs |-> win, spans |-> run_stats(win, sp3, obs.span)]

\* One pass of the loop body up to the forward; without an outbound
\* Sender the iteration ends here and the Observation goes out of scope.
StatsProcess ==
    /\ statsPc = "process"
    /\ LET b == in_scope_body(previous_obs, cur, spans)
       IN  /\ previous_obs' = b.previous_obs
           /\ processed' = Append(processed, cur)
           /\ IF outbound = "Some"
              THEN /\ spans' = b.spans
                   /\ statsPc' = "forward"
                   /\ UNCHANGED << metrics, cur >>
              ELSE LET w == DropObservation(World(metrics, b.spans), cur)
                   IN  /\ metrics' = w.metrics
                       /\ spans' = w.spans
                       /\ cur' = NoObs
                       /\ statsPc' = "recv"
    /\ UNCHANGED << system, counter, monitorPc, pending, chan, txOpen, rxOpen,
                    outbound, down, downRxOpen, held, superPc, callerHandle,
                    received, forwarded, delivered, forwardFailed,
                    entered, consumer, obs_collection >>

\* Faulty variant of SendMoves: a copy goes into the channel and the
\* original is dropped by the loop.
SendCopies(w, obs) ==
    DropObservation([w EXCEPT !.spans = SpanCloneHandle(@, obs.span)], obs)
\* send(obs) takes the Observation by value: it is moved into the channel,
\* nothing is cloned and nothing is dropped.
SendMoves(w, obs) == w

\* outbound.send(obs).await
StatsForward ==
    /\ statsPc = "forward"
    /\ IF ~downRxOpen
       THEN \* is_err(): the Observation comes back in the SendError and is
            \* dropped; the loop breaks.
            /\ StatsTaskEnd(DropObservation(World(metrics, spans), cur))
            /\ forwardFailed' = TRUE
            /\ UNCHANGED << down, forwarded >>
       ELSE /\ HasRoom(down, OutboundCapacity)
            /\ down' = ChanPush(down, cur)
            /\ LET w == SendMoves(World(metrics, spans), cur)
               IN  /\ metrics' = w.metrics
                   /\ spans' = w.spans
            /\ forwarded' = Append(forwarded, cur.span)
            /\ cur' = NoObs
            /\ statsPc' = "recv"
            /\ UNCHANGED << chan, rxOpen, outbound, previous_obs, forwardFailed >>
    /\ UNCHANGED << system, counter, monitorPc, pending, txOpen, downRxOpen,
                    held, superPc, callerHandle, received, processed, delivered,
                    entered, consumer, obs_collection >>

\* -------------------------------------------------- downstream consumer
\* Some(obs) = rx.recv(), then obs.span().in_scope(|| info!(..)).
ConsumerRecv ==
    /\ downRxOpen
    /\ held = NoObs
    /\ down # <<>>
    /\ held' = ChanFront(down)
    /\ down' = ChanPop(down)
    /\ delivered' = Append(delivered, ChanFront(down).span)
    /\ spans' = InScopeEvent(spans, ChanFront(down).span,
                             "Received observation in main", <<>>, NoFields)
    /\ UNCHANGED << system, counter, monitorPc, pending, chan, txOpen, rxOpen,
                    statsPc, cur, previous_obs, outbound, downRxOpen, superPc,
                    callerHandle, metrics, received, processed, forwarded,
                    forwardFailed,
                    entered, consumer, obs_collection >>

\* The select! arm ends: obs goes out of scope.
ConsumerRelease ==
    /\ consumer = "good"
    /\ held # NoObs
    /\ LET w == DropObservation(World(metrics, spans), held)
       IN  /\ metrics' = w.metrics
           /\ spans' = w.spans
    /\ held' = NoObs
    /\ UNCHANGED << system, counter, monitorPc, pending, chan, txOpen, rxOpen,
                    statsPc, cur, previous_obs, outbound, down, downRxOpen,
                    superPc, callerHandle, received, processed, forwarded,
                    delivered, forwardFailed,
                    entered, consumer, obs_collection >>

\* Faulty variant of CollectionEvicts: the oldest goes one entry early.
CollectionEvictsEarly(col) == Len(col) >= 10
\* bad_holding_span: if obs_collection.len() > 10 { pop_front() }
CollectionEvicts(col) == Len(col) > 10

\* bad_holding_span: the rest of the select! arm.  obs is moved into the
\* collection and the entry popped off a collection of more than 10 is
\* dropped on the spot.
ConsumerStore ==
    /\ consumer = "holding"
    /\ held # NoObs
    /\ LET col == Append(obs_collection, held)
       IN  IF CollectionEvicts(col)
           THEN LET w == DropObservation(World(metrics, spans), Head(col))
                IN  /\ metrics' = w.metrics
                    /\ spans' = w.spans
                    /\ obs_collection' = Tail(col)
           ELSE /\ obs_collection' = col
                /\ UNCHANGED << metrics, spans >>
    /\ held' = NoObs
    /\ UNCHANGED << system, counter, monitorPc, pending, chan, txOpen, rxOpen,
                    statsPc, cur, previous_obs, outbound, down, downRxOpen,
                    superPc, callerHandle, received, processed, forwarded,
                    delivered, forwardFailed, entered, consumer >>

\* The consumer leaves its loop and main drops its locals: the collection
\* with what it keeps, then rx with what is buffered in it.  The loop of
\* bad_holding_span has no other way out than the handle resolving.
ConsumerClose ==
    /\ downRxOpen
    /\ held = NoObs
    /\ consumer = "holding" => superPc # "select"
    /\ LET w == DropAll(DropAll(World(metrics, spans), obs_collection), down)
       IN  /\ metrics' = w.metrics
           /\ spans' = w.spans
    /\ down' = <<>>
    /\ obs_collection' = <<>>
    /\ downRxOpen' = FALSE
    /\ UNCHANGED << system, counter, monitorPc, pending, chan, txOpen, rxOpen,
                    statsPc, cur, previous_obs, outbound, held, superPc,
                    callerHandle, received, processed, forwarded, delivered,
                    forwardFailed, entered, consumer >>

\* ------------------------------------------------------ run_observations
\* Faulty variant of SelectReady: both tasks are awaited (join! for select!).
SelectReadyBoth(m, s) == m = "done" /\ s = "done"
\* tokio::select! over the two JoinHandles: a branch is ready when its
\* task has finished.
SelectReady(m, s) == m = "done" \/ s = "done"

SuperSelect ==
    /\ superPc = "select"
    /\ SelectReady(monitorPc, statsPc)
    /\ superPc' = "done"
    /\ UNCHANGED << system, counter, monitorPc, pending, chan, txOpen, rxOpen,
                    statsPc, cur, previous_obs, outbound, down, downRxOpen,
                    held, callerHandle, metrics, spans, received, processed,
                    forwarded, delivered, forwardFailed,
                    entered, consumer, obs_collection >>

\* JoinHandle::abort on the returned handle: the select! task is
\* cancelled and drops monitor_handle and stats_handle, which detaches
\* the two tasks.
HandleAbort ==
    /\ callerHandle = "held"
    /\ superPc = "select"
    /\ superPc' = "cancelled"
    /\ UNCHANGED << system, counter, monitorPc, pending, chan, txOpen, rxOpen,
                    statsPc, cur, previous_obs, outbound, down, downRxOpen,
                    held, callerHandle, metrics, spans, received, processed,
                    forwarded, delivered, forwardFailed,
                    entered, consumer, obs_collection >>

\* Dropping the returned JoinHandle detaches the select! task.
HandleDrop ==
    /\ callerHandle = "held"
    /\ callerHandle' = "dropped"
    /\ UNCHANGED << system, counter, monitorPc, pending, chan, txOpen, rxOpen,
                    statsPc, cur, previous_obs, outbound, down, downRxOpen,
                    held, superPc, metrics, spans, received, processed,
                    forwarded, delivered, forwardFailed,
                    entered, consumer, obs_collection >>

Next ==
    \/ MonitorTick
    \/ MonitorSend
    \/ StatsRecv
    \/ StatsProcess
    \/ StatsForward
    \/ ConsumerRecv
    \/ ConsumerRelease
    \/ ConsumerStore
    \/ ConsumerClose
    \/ SuperSelect
    \/ HandleAbort
    \/ HandleDrop

Spec == Init /\ [][Next]_vars

\* The scheduler runs every task that can take a step, and the timer
\* keeps firing; the downstream consumer and the caller are free.
Fairness ==
    /\ WF_vars(MonitorTick)
    /\ WF_vars(MonitorSend)
    /\ WF_vars(StatsRecv)
    /\ WF_vars(StatsProcess)
    /\ WF_vars(StatsForward)
    /\ WF_vars(SuperSelect)

FairSpec == Spec /\ Fairness

\* ============================================================ properties
Min(a, b) == IF a < b THEN a ELSE b
SpanIds == 1..Len(spans)

\* The operations of span s's trail, and its aggregate events, in order.
TrailOps(s) == [i \in 1..Len(spans[s].trail) |-> spans[s].trail[i].op]
StatsEventsOf(s) ==
    SelectSeq(spans[s].trail, LAMBDA r : r.msg = "finished cpu stats")

\* Where an Observation can be: the spans of the Observations a place holds.
RECURSIVE SpansOf(_)
SpansOf(buf) == IF buf = <<>> THEN {} ELSE {Head(buf).span} \cup SpansOf(Tail(buf))
OptSpan(o) == IF o = NoObs THEN {} ELSE {o.span}
Owned == OptSpan(pending) \cup SpansOf(chan) \cup OptSpan(cur)
             \cup SpansOf(down) \cup OptSpan(held) \cup SpansOf(obs_collection)
Disposed(s) == spans[s].drops >= 1

RECURSIVE SumDrops(_)
SumDrops(n) == IF n = 0 THEN 0 ELSE spans[n].drops + SumDrops(n - 1)

\* ---------------------------------------------------------------- C1
\* C1: after SysStats has processed its k-th Observation the window holds
\* exactly the min(k, 10) most recently received batches, oldest first,
\* and the aggregate event emitted for the j-th Observation reports
\* count = min(j, 10).
C1_WindowHoldsMostRecent ==
    LET k == Len(processed)
        n == Min(k, 10)
    IN  /\ statsPc # "done" =>
              /\ Len(previous_obs) = n
              /\ \A i \in 1..n : previous_obs[i].cpus = processed[k - n + i].cpus
        /\ \A j \in 1..k :
              LET ev == StatsEventsOf(processed[j].span)
              IN  Len(ev) = 1 /\ ev[1].fields.count = Min(j, 10)

\* Twelve batches of pairwise different readings were processed: the two
\* oldest have been evicted from a full window.
C1_Witness ==
    /\ Len(processed) = 12
    /\ Len(previous_obs) = 10
    /\ system.step > 0
    /\ previous_obs[1].cpus # processed[1].cpus
    /\ previous_obs[1].cpus = processed[3].cpus

\* ---------------------------------------------------------------- C2
\* C2: an Observation's span is closed if and only if the Observation has
\* been disposed; a span is never closed while its Observation is owned
\* by the monitor, a channel, the stats loop or the downstream consumer,
\* and readings left in the window do not keep it open.
C2_ClosedIffDisposed ==
    \A s \in SpanIds :
        /\ spans[s].closed <=> Disposed(s)
        /\ s \in Owned => ~spans[s].closed
        /\ s \notin Owned => spans[s].closed

\* A disposed Observation whose readings are still in the window.
C2_Witness ==
    /\ statsPc = "recv"
    /\ Len(previous_obs) >= 3
    /\ LET s == processed[Len(processed)].span
       IN  /\ Disposed(s)
           /\ spans[s].closed
           /\ previous_obs[Len(previous_obs)].cpus = processed[Len(processed)].cpus
           /\ Len(previous_obs[Len(previous_obs)].cpus) > 0

\* ---------------------------------------------------------------- C3
\* C3: the observations_live gauge equals the number of Observations
\* constructed minus the number disposed, in every state.
C3_GaugeIsLiveCount ==
    /\ metrics.live = Len(spans) - SumDrops(Len(spans))
    /\ metrics.live = Cardinality(Owned)

\* Several Observations are live and several have been disposed.
C3_Witness ==
    /\ metrics.live = 3
    /\ SumDrops(Len(spans)) >= 2
    /\ held # NoObs

\* ---------------------------------------------------------------- C4
\* C4: after a forward fails because the downstream receiver is gone, the
\* stats loop stops forwarding but keeps receiving: it has not left its
\* receive loop and its inbound receiver is still there.
C4_ForwardFailureKeepsReceiving ==
    forwardFailed => (statsPc # "done" /\ rxOpen)

\* ---------------------------------------------------------------- C5
\* C5: no aggregate event carries an undefined (NaN) average, also when
\* every batch of the window is empty.
C5_NoNaNAggregate ==
    \A s \in SpanIds :
        \A i \in 1..Len(spans[s].trail) :
            LET r == spans[s].trail[i]
            IN  r.msg = "finished cpu stats" =>
                    /\ r.fields.average_usage.kind # "nan"
                    /\ r.fields.average_freq_mhz.kind # "nan"

\* ---------------------------------------------------------------- C6
\* C6: the handle resolves as soon as either task has exited, whatever
\* the other task is doing, and not while both are still running: the
\* select! task finishes only after an exit, can finish in every state
\* where a task has exited, and then does finish.
OneTaskExited == monitorPc = "done" \/ statsPc = "done"
C6_HandleResolvesOnFirstExit ==
    /\ [](superPc = "done" => OneTaskExited)
    /\ []((superPc = "select" /\ OneTaskExited) => ENABLED SuperSelect)
    /\ (OneTaskExited ~> superPc # "select")

\* The handle has resolved while the monitor is still suspended in a send.
C6_Witness ==
    /\ superPc = "done"
    /\ statsPc = "done"
    /\ monitorPc = "send"

\* ---------------------------------------------------------------- C7
\* C7: once the returned handle is aborted or dropped, the monitor
\* eventually sees a send fail and both actor loops exit.  Stated for the
\* ticks that are explored: a run in which the timer has delivered all
\* of them is not held against the claim.
HandleCancelled == superPc = "cancelled" \/ callerHandle = "dropped"
BothExited == monitorPc = "done" /\ statsPc = "done"
C7_CancelStopsActors ==
    HandleCancelled ~> (BothExited \/ Len(spans) = MaxTicks)

\* Without an outbound channel neither loop has a way out: the monitor
\* leaves only when a send fails, which takes the stats task dropping the
\* receiver, and the stats task leaves only when every sender is gone.
NoExitWithoutOutbound ==
    outbound = "None" => (monitorPc # "done" /\ statsPc # "done")

\* ---------------------------------------------------------------- C8
\* C8: the monitor -> stats channel has capacity 2: the buffer never
\* holds more than 2 Observations; a send with the receiver alive is
\* suspended exactly while the buffer holds 2, and while it is suspended
\* the Observation stays with the monitor, neither dropped nor refused;
\* a send that completes puts that Observation at the end of the buffer.
C8_Backpressure ==
    /\ [](Len(chan) <= 2)
    /\ []((monitorPc = "send" /\ rxOpen) =>
            /\ pending # NoObs
            /\ ~Disposed(pending.span)
            /\ (ENABLED MonitorSend) <=> (Len(chan) < 2))
    /\ [][(monitorPc = "send" /\ rxOpen /\ monitorPc' # "send") =>
            (monitorPc' = "tick" /\ chan' = Append(chan, pending))]_vars

\* Nothing was ever received: two sends completed, the third is suspended.
C8_Witness ==
    /\ received = <<>>
    /\ Len(chan) = 2
    /\ monitorPc = "send"
    /\ rxOpen
    /\ Len(spans) = 3
    /\ ~ENABLED MonitorSend

\* ---------------------------------------------------------------- C9
\* C9: Observations are consumed by SysStats, forwarded on the outbound
\* channel and received downstream in the order the monitor produced
\* them (spans are numbered in production order), none twice.
InOrder(h) == \A i \in 1..Len(h) : h[i] = i
C9_OrderPreserved ==
    /\ InOrder(received)
    /\ InOrder(forwarded)
    /\ InOrder(delivered)
    /\ Len(delivered) <= Len(forwarded)
    /\ Len(forwarded) <= Len(received)
    /\ Len(received) <= Len(spans)
    /\ \A i \in 1..Len(chan) : chan[i].span = Len(received) + i
    /\ \A i \in 1..Len(down) : down[i].span = Len(delivered) + i

\* Both channels are full while Observations are produced, consumed,
\* forwarded and delivered.
C9_Witness ==
    /\ Len(chan) = 2
    /\ Len(down) = 2
    /\ Len(delivered) >= 3
    /\ pending # NoObs
    /\ cur # NoObs

\* --------------------------------------------------------------- C10
\* The last n operations of span s.
LastOps(s, n) ==
    LET ops == TrailOps(s)
    IN  IF Len(ops) < n THEN <<>> ELSE SubSeq(ops, Len(ops) - n + 1, Len(ops))

\* C10 as claimed: event, then close, then the gauge decrement, so the
\* gauge is never decremented while the span is open.
C10_GaugeDecrementedAfterClose ==
    \A s \in SpanIds :
        /\ Disposed(s) => LastOps(s, 3) = <<"event", "close", "gauge_dec">>
        /\ \A i \in 1..Len(spans[s].trail) :
               spans[s].trail[i].op = "gauge_dec" => ~spans[s].trail[i].open

\* C10 amended: disposal records the "Dropping observation" event inside
\* the open span, then decrements the gauge, then closes the span.
C10_DisposalOrder ==
    \A s \in SpanIds :
        LET tr == spans[s].trail
            n  == Len(tr)
        IN  /\ Disposed(s) =>
                  /\ LastOps(s, 3) = <<"event", "gauge_dec", "close">>
                  /\ tr[n - 2].msg = "Dropping observation"
                  /\ tr[n - 2].open
                  /\ tr[n - 1].open
            /\ ~Disposed(s) =>
                  \A i \in 1..n : tr[i].op \notin {"gauge_dec", "close"}

\* An Observation has been disposed by the stats loop and another by the
\* downstream consumer.
C10_Witness ==
    /\ \E s \in SpanIds : Disposed(s) /\ s \in {delivered[i] : i \in 1..Len(delivered)}
    /\ \E s \in SpanIds : Disposed(s) /\ forwardFailed
                            /\ s \notin {delivered[i] : i \in 1..Len(delivered)}

\* --------------------------------------------------------------- C11
\* C11: the monitor loop exits exactly on a send that fails because the
\* receiver is gone.  It has not exited while the receiver exists; it
\* leaves only from a send with the receiver gone, and such a send always
\* makes it leave; once out it ticks no more and constructs nothing; and
\* every tick constructs exactly one Observation.
C11_MonitorExitsOnlyOnSendFailure ==
    /\ [](rxOpen => monitorPc # "done")
    /\ []((monitorPc = "send" /\ ~rxOpen) => ENABLED MonitorSend)
    /\ [][(monitorPc # "done" /\ monitorPc' = "done") =>
            (monitorPc = "send" /\ ~rxOpen)]_vars
    /\ [][(monitorPc = "send" /\ ~rxOpen /\ monitorPc' # "send") =>
            (monitorPc' = "done" /\ ~txOpen' /\ pending' = NoObs
               /\ spans'[pending.span].drops = 1
               /\ spans'[pending.span].closed)]_vars
    /\ [][monitorPc = "done" =>
            (monitorPc' = "done" /\ Len(spans') = Len(spans)
               /\ metrics'.made = metrics.made)]_vars
    /\ [][(monitorPc = "tick" /\ monitorPc' # "tick") =>
            (/\ monitorPc' = "send"
             /\ Len(spans') = Len(spans) + 1
             /\ metrics'.made = metrics.made + 1
             /\ pending' # NoObs
             /\ pending'.span = Len(spans'))]_vars

\* The monitor has left its loop after a failed send although ticks remain.
C11_Witness ==
    /\ monitorPc = "done"
    /\ ~rxOpen
    /\ Len(spans) < MaxTicks
    /\ Len(spans) >= 3
    /\ Disposed(Len(spans))

\* --------------------------------------------------------------- C12
\* The records of span s's trail that satisfy a test, as positions.
TrailPositions(s, Test(_)) == {i \in 1..Len(spans[s].trail) : Test(spans[s].trail[i])}
IsWindowUpdate(r) == r.op = "window"
IsStatsEvent(r) == r.msg = "finished cpu stats"
IsDisposalStep(r) == r.op \in {"gauge_dec", "close"}

\* C12: the window update and the aggregate event for an Observation are
\* made inside that Observation's own span while it is open: the span of
\* the j-th processed Observation, and no other span, records exactly one
\* window update followed by one aggregate event (emitted in the
\* "Computing stats" span entered inside it), both with the span open and
\* both before anything of its disposal; the Observation being processed
\* has its span open.
C12_AggregateInsideOpenSpan ==
    /\ statsPc = "process" => (cur # NoObs /\ ~spans[cur.span].closed)
    /\ \A s \in SpanIds :
          LET tr == spans[s].trail
              wu == TrailPositions(s, IsWindowUpdate)
              ev == TrailPositions(s, IsStatsEvent)
              ds == TrailPositions(s, IsDisposalStep)
          IN  IF s <= Len(processed)
              THEN /\ processed[s].span = s
                   /\ Cardinality(wu) = 1
                   /\ Cardinality(ev) = 1
                   /\ \A i \in wu, j \in ev :
                         /\ i < j
                         /\ tr[i].open /\ tr[j].open
                         /\ tr[j].op = "event"
                         /\ tr[j].scope = <<"Computing stats">>
                         /\ \A d \in ds : j < d
              ELSE wu = {} /\ ev = {}

\* An Observation was processed and forwarded with its span still open,
\* and an earlier one has been processed and since disposed.
C12_Witness ==
    /\ statsPc = "forward"
    /\ Len(processed) >= 3
    /\ ~spans[cur.span].closed
    /\ TrailPositions(cur.span, IsStatsEvent) # {}
    /\ Disposed(1)

\* --------------------------------------------------------------- C13
IsReceivedInMain(r) == r.msg = "Received observation in main"
Range(h) == {h[i] : i \in 1..Len(h)}

\* C13: aggregation comes before forwarding.  The i-th Observation sent on
\* the outbound channel is the i-th one processed; when the stats loop is
\* about to send an Observation, its readings are the newest entry of the
\* window and its span already carries its window update and aggregate
\* event; a send completes only from that position; and downstream, the
\* event recorded on reception comes after the aggregate event.
C13_AggregatedBeforeForwarded ==
    /\ [](/\ Len(forwarded) <= Len(processed)
          /\ \A i \in 1..Len(forwarded) : forwarded[i] = processed[i].span)
    /\ [](statsPc = "forward" =>
            /\ cur = processed[Len(processed)]
            /\ Len(forwarded) = Len(processed) - 1
            /\ previous_obs # <<>>
            /\ previous_obs[Len(previous_obs)].cpus = cur.cpus)
    /\ [](\A s \in Range(forwarded) \cup Range(delivered) \cup SpansOf(down)
                     \cup OptSpan(held) \cup (IF statsPc = "forward" THEN OptSpan(cur) ELSE {}) :
            /\ TrailPositions(s, IsWindowUpdate) # {}
            /\ TrailPositions(s, IsStatsEvent) # {}
            /\ \A r \in TrailPositions(s, IsReceivedInMain) :
                  \A a \in TrailPositions(s, IsWindowUpdate) \cup TrailPositions(s, IsStatsEvent) :
                      a < r)
    /\ [][forwarded' # forwarded =>
            /\ statsPc = "forward"
            /\ forwarded' = Append(forwarded, cur.span)
            /\ down' = Append(down, cur)
            /\ TrailPositions(cur.span, IsStatsEvent) # {}]_vars

\* The consumer holds an Observation it received after its aggregate event
\* was emitted, while the stats loop is about to forward a later one.
C13_Witness ==
    /\ held # NoObs
    /\ Len(delivered) >= 2
    /\ statsPc = "forward"
    /\ TrailPositions(held.span, IsReceivedInMain) # {}
    /\ TrailPositions(held.span, IsStatsEvent) # {}
    /\ Len(held.cpus) > 0

\* --------------------------------------------------------------- C14
IsDroppingEvent(r) == r.msg = "Dropping observation"

\* C14: the stats loop forwards the Observation it received, not a copy.
\* Whatever is in the outbound channel or with the consumer is the very
\* Observation that was processed, undisposed, its span open with its
\* single handle; the consumer's reception event is recorded in an open
\* span; a completed forward changes neither the metrics nor any span; no
\* Observation is disposed twice; and a forwarded Observation is disposed
\* only by the consumer: as it lets go of the one it holds or of one it
\* has stored, or as it drops its receiver with the Observation still
\* buffered.
C14_ForwardsSameObservation ==
    /\ [](\A i \in 1..Len(down) : down[i] = processed[down[i].span])
    /\ [](held # NoObs => held = processed[held.span])
    /\ [](\A s \in SpansOf(down) \cup OptSpan(held) \cup SpansOf(obs_collection) :
            /\ ~spans[s].closed
            /\ spans[s].drops = 0
            /\ spans[s].handles = 1
            /\ TrailPositions(s, IsDroppingEvent) = {})
    /\ [](\A s \in SpanIds :
            /\ spans[s].drops <= 1
            /\ \A r \in TrailPositions(s, IsReceivedInMain) : spans[s].trail[r].open)
    /\ [][forwarded' # forwarded => (metrics' = metrics /\ spans' = spans)]_vars
    /\ [][\A s \in Range(forwarded) :
            (spans[s].drops = 0 /\ spans'[s].drops # 0) =>
                \/ held # NoObs /\ held.span = s /\ held' = NoObs
                \/ s \in SpansOf(obs_collection) /\ s \notin SpansOf(obs_collection')
                \/ s \in SpansOf(down) /\ downRxOpen /\ ~downRxOpen']_vars

\* One forwarded Observation was released by the consumer, which holds
\* the next one, still open, while another waits in the channel.
C14_Witness ==
    /\ Len(delivered) >= 2
    /\ Disposed(delivered[1])
    /\ held # NoObs
    /\ ~spans[held.span].closed
    /\ down # <<>>
    /\ Len(held.cpus) > 0

\* --------------------------------------------------------------- C15
\* The sum f[1] + .. + f[n].
RECURSIVE SumTo(_, _)
SumTo(f, n) == IF n = 0 THEN 0 ELSE f[n] + SumTo(f, n - 1)

\* The batches the window holds once the j-th Observation's readings were
\* appended: those of the last min(j, 10) processed Observations.
WindowAt(j) == [i \in 1..Min(j, 10) |-> processed[j - Min(j, 10) + i].cpus]
TotalReadings(w) == SumTo([i \in 1..Len(w) |-> Len(w[i])], Len(w))
TotalUsage(w) ==
    SumTo([i \in 1..Len(w) |->
              SumTo([k \in 1..Len(w[i]) |-> w[i][k].usage], Len(w[i]))], Len(w))
TotalFrequency(w) ==
    SumTo([i \in 1..Len(w) |->
              SumTo([k \in 1..Len(w[i]) |-> w[i][k].frequency], Len(w[i]))], Len(w))

\* q is the f64 quotient a / b.
IsQuotient(q, a, b) ==
    IF b # 0 THEN q.kind = "num" /\ q.den # 0 /\ q.num * b = a * q.den
    ELSE IF a # 0 THEN q.kind = "inf"
    ELSE q.kind = "nan"

\* C15: the aggregate event for the j-th processed Observation is computed
\* over the window as it is once that Observation's readings were
\* appended: count is the number of batches, cpus is the readings per
\* batch, average_usage and average_freq_mhz are the sums of usage and of
\* frequency over all the windowed readings divided by their number (as
\* f64 quotients: 0.0 / 0.0 when the window has no reading).
C15_AggregateOverWindow ==
    \A j \in 1..Len(processed) :
        LET w  == WindowAt(j)
            ev == StatsEventsOf(processed[j].span)
        IN  /\ Len(ev) = 1
            /\ ev[1].fields.count = Len(w)
            /\ IsQuotient(ev[1].fields.cpus, TotalReadings(w), Len(w))
            /\ IsQuotient(ev[1].fields.average_usage, TotalUsage(w), TotalReadings(w))
            /\ IsQuotient(ev[1].fields.average_freq_mhz, TotalFrequency(w), TotalReadings(w))

\* Twelve batches of two readings each, pairwise different, were
\* aggregated; the last event averages the twenty readings of a full
\* window, which differ from the newest batch's own average.
C15_Witness ==
    /\ Len(processed) = 12
    /\ system.ncpu = 2
    /\ LET f == StatsEventsOf(processed[12].span)[1].fields
       IN  /\ f.count = 10
           /\ f.cpus = [kind |-> "num", num |-> 20, den |-> 10]
           /\ f.average_usage.den = 20
           /\ f.average_usage.num > 0
           /\ f.average_usage.num # 10 * SumUsage(processed[12].cpus)

\* --------------------------------------------------------------- C16
\* How many times the Observation of span s occurs in a place.
CountIn(buf, s) == Cardinality({i \in 1..Len(buf) : buf[i].span = s})
CountOpt(o, s) == IF o # NoObs /\ o.span = s THEN 1 ELSE 0
Occurrences(s) ==
    CountOpt(pending, s) + CountIn(chan, s) + CountOpt(cur, s)
        + CountIn(down, s) + CountOpt(held, s) + CountIn(obs_collection, s)

\* The place that owns the Observation of span s.
Owner(s) ==
    IF CountOpt(pending, s) > 0 THEN "monitor"
    ELSE IF CountIn(chan, s) > 0 THEN "channel"
    ELSE IF CountOpt(cur, s) > 0 THEN "stats"
    ELSE IF CountIn(down, s) > 0 THEN "outbound channel"
    ELSE IF CountOpt(held, s) + CountIn(obs_collection, s) > 0 THEN "consumer"
    ELSE "none"

\* The moves of an Observation: a send into or a receive from a channel.
OwnerMoves ==
    { << "monitor", "channel" >>, << "channel", "stats" >>,
      << "stats", "outbound channel" >>, << "outbound channel", "consumer" >> }

\* C16: an Observation that has been constructed and not disposed is in
\* exactly one place (with the monitor for its send, in the channel, with
\* the stats loop, in the outbound channel, with the consumer) and a
\* disposed one is nowhere; none is disposed twice; an Observation starts
\* with the monitor, changes place only by a channel send or receive, and
\* leaves its place otherwise only by being disposed.
C16_SingleOwner ==
    /\ [](\A s \in SpanIds :
            /\ spans[s].drops <= 1
            /\ Occurrences(s) + spans[s].drops = 1
            /\ (Owner(s) = "none") <=> Disposed(s))
    /\ [][\A s \in 1..Len(spans') :
            IF s \in SpanIds
            THEN Owner(s)' # Owner(s) =>
                    \/ << Owner(s), Owner(s)' >> \in OwnerMoves
                    \/ Owner(s)' = "none" /\ spans[s].drops = 0 /\ spans'[s].drops = 1
            ELSE Owner(s)' = "monitor"]_vars

\* Every place holds an Observation at once, and one has been disposed.
C16_Witness ==
    /\ pending # NoObs
    /\ Len(chan) = 2
    /\ cur # NoObs
    /\ Len(down) = 2
    /\ held # NoObs
    /\ Cardinality(Owned) = 7
    /\ Disposed(1)

\* --------------------------------------------------------------- C17
\* C17: the counter starts at 0 and each tick adds exactly 1 to it,
\* wrapping, after the tick's span was opened with the old value: the
\* k-th Observation's span carries observation_id (k - 1) mod CounterMod,
\* ids of successive Observations are consecutive modulo CounterMod, and at
\* the wrap the loop ticks on as everywhere else.
C17_CounterWraps ==
    /\ [](counter = Len(spans) % CounterMod)
    /\ [](\A k \in SpanIds : spans[k].observation_id = (k - 1) % CounterMod)
    /\ [](\A k \in SpanIds \ {1} :
            spans[k].observation_id = (spans[k - 1].observation_id + 1) % CounterMod)
    /\ []((monitorPc = "tick" /\ Len(spans) < MaxTicks) => ENABLED MonitorTick)
    /\ [][Len(spans') # Len(spans) =>
            /\ Len(spans') = Len(spans) + 1
            /\ spans'[Len(spans')].observation_id = counter
            /\ counter' = (counter + 1) % CounterMod
            /\ monitorPc' = "send"]_vars

\* The counter has wrapped: the Observation after the one with the
\* largest id carries id 0 and the monitor has gone on to send it.
C17_Witness ==
    /\ Len(spans) > CounterMod
    /\ spans[CounterMod].observation_id = CounterMod - 1
    /\ spans[CounterMod + 1].observation_id = 0
    /\ counter = 1
    /\ monitorPc = "send"
    /\ pending.span = CounterMod + 1

\* --------------------------------------------------------------- C18
\* C18: when the caller of run_observations has a span entered and keeps
\* it entered, every Observation's span is a child of that span.
C18_ObservationSpansAreChildren ==
    CurrentSpan(entered["main"]) # NoParent =>
        \A s \in SpanIds : spans[s].parent = CurrentSpan(entered["main"])

\* What the monitor task sees instead: nothing is entered on the thread
\* that polls it, so every Observation's span is a root.
ObservationSpansAreRoots ==
    \A s \in SpanIds : spans[s].parent = NoParent

\* --------------------------------------------------------------- C19
\* The Observations the holding loop has put into its collection so far,
\* and whether that loop is still running.
Stored == Len(delivered) - (IF held # NoObs THEN 1 ELSE 0)
HoldingLoopRunning == consumer = "holding" /\ downRxOpen

\* C19: in the loop of bad_holding_span the collection holds at most 10
\* Observations after each iteration, namely the last ones stored, all
\* with their span open; while the loop runs the i-th Observation received
\* has its span closed exactly when 10 further ones have been stored after
\* it; and a span of an Observation in the collection closes only as that
\* Observation, the oldest of 10, is evicted by the storing of another, or
\* as the loop is over and main drops the collection.
C19_HeldSpansCloseOnEviction ==
    /\ [](consumer = "holding" => Len(obs_collection) <= 10)
    /\ [](\A s \in SpansOf(obs_collection) :
            /\ ~spans[s].closed
            /\ spans[s].drops = 0
            /\ TrailPositions(s, IsDisposalStep) = {})
    /\ [](HoldingLoopRunning =>
            /\ Len(obs_collection) = Min(Stored, 10)
            /\ \A i \in 1..Len(obs_collection) :
                  obs_collection[i].span = delivered[Stored - Len(obs_collection) + i]
            /\ \A i \in 1..Len(delivered) :
                  spans[delivered[i]].closed <=> (Stored >= i + 10))
    /\ [][\A s \in SpansOf(obs_collection) :
            spans'[s].closed =>
                \/ /\ HoldingLoopRunning
                   /\ downRxOpen'
                   /\ Len(obs_collection) = 10
                   /\ s = obs_collection[1].span
                   /\ held # NoObs
                   /\ obs_collection' = Append(Tail(obs_collection), held)
                \/ /\ downRxOpen /\ ~downRxOpen'
                   /\ superPc # "select"]_vars

\* Twelve Observations were stored: the first two have been evicted and
\* closed, the other ten are kept open, the third for nine stores by now.
C19_Witness ==
    /\ HoldingLoopRunning
    /\ held = NoObs
    /\ Len(delivered) = 12
    /\ Len(obs_collection) = 10
    /\ spans[delivered[1]].closed
    /\ spans[delivered[2]].closed
    /\ ~spans[delivered[3]].closed
    /\ obs_collection[1].span = delivered[3]

\* --------------------------------------------------------------- C20
\* C20: without an outbound channel at most 4 Observations are live in
\* any state: at most 2 in the channel, 1 with the monitor for its send
\* and 1 with the stats loop, and none anywhere else.
C20_AtMostFourLive ==
    outbound = "None" =>
        /\ metrics.live <= 4
        /\ Cardinality(Owned) <= 4
        /\ Len(spans) - SumDrops(Len(spans)) <= 4
        /\ Len(chan) <= 2
        /\ Owned = OptSpan(pending) \cup SpansOf(chan) \cup OptSpan(cur)
        /\ metrics.live = Len(chan) + CountOpt(pending, pending.span)
                            + CountOpt(cur, cur.span)

\* The bound is met: a full channel, a send suspended on it and an
\* Observation with the stats loop, after earlier ones were disposed.
C20_Witness ==
    /\ outbound = "None"
    /\ metrics.live = 4
    /\ Len(chan) = 2
    /\ pending # NoObs
    /\ cur # NoObs
    /\ SumDrops(Len(spans)) >= 2

\* --------------------------------------------------------------- C21
\* The timer has delivered every tick that is explored and the monitor
\* waits for one more.
TicksExhausted == monitorPc = "tick" /\ Len(spans) = MaxTicks

\* C21: the two tasks exit in one order, linked through the channel.  The
\* monitor task has never exited while the stats task runs; the stats
\* task's exit drops the inbound Receiver; from then on a send of the
\* monitor is never suspended and its next send attempt ends the monitor
\* task, so that at most one more Observation is constructed; and, ticks
\* occurring, the monitor task does exit.
C21_MonitorExitsAfterStats ==
    /\ [](monitorPc = "done" => statsPc = "done")
    /\ [](statsPc = "done" => ~rxOpen /\ chan = <<>>)
    /\ []((statsPc = "done" /\ monitorPc = "send") => ENABLED MonitorSend)
    /\ [][(statsPc = "done" /\ monitorPc = "send" /\ monitorPc' # "send") =>
            monitorPc' = "done"]_vars
    /\ [][(statsPc = "done" /\ Len(spans') # Len(spans)) =>
            (monitorPc = "tick" /\ monitorPc' = "send")]_vars
    /\ (statsPc = "done" ~> (monitorPc = "done" \/ TicksExhausted))

\* The stats task left its loop on a failed forward and the monitor task
\* followed at its next send, with ticks to spare.
C21_Witness ==
    /\ forwardFailed
    /\ statsPc = "done"
    /\ monitorPc = "done"
    /\ ~txOpen
    /\ chan = <<>>
    /\ pending = NoObs
    /\ Len(spans) < MaxTicks
    /\ Len(spans) > Len(received)

\* --------------------------------------------------------------- C22
\* Every Observation of a buffer is disposed in the next state.
AllDisposedNext(buf) == \A s \in SpansOf(buf) : spans'[s].drops = 1

\* C22: no Observation is leaked on any way out.  The Observation of a
\* failed send of the monitor, that of a failed forward of the stats loop,
\* that of an iteration finished without an outbound Sender, and those
\* buffered in a channel whose Receiver is dropped are disposed by that
\* very step; none is disposed twice; and once both tasks have exited and
\* the consumer holds none, every Observation constructed has been
\* disposed exactly once, its span is closed, and the gauge reads 0.
C22_NothingLeaked ==
    /\ [][(monitorPc = "send" /\ ~rxOpen /\ monitorPc' # "send") =>
            (pending' = NoObs /\ spans'[pending.span].drops = 1)]_vars
    /\ [][(statsPc = "forward" /\ ~downRxOpen /\ statsPc' # "forward") =>
            (cur' = NoObs /\ spans'[cur.span].drops = 1)]_vars
    /\ [][(statsPc = "process" /\ outbound = "None" /\ statsPc' # "process") =>
            (cur' = NoObs /\ spans'[cur.span].drops = 1)]_vars
    /\ [][(rxOpen /\ ~rxOpen') => (chan' = <<>> /\ AllDisposedNext(chan))]_vars
    /\ [][(downRxOpen /\ ~downRxOpen') =>
            (/\ down' = <<>> /\ AllDisposedNext(down)
             /\ obs_collection' = <<>> /\ AllDisposedNext(obs_collection))]_vars
    /\ [](\A s \in SpanIds : spans[s].drops <= 1)
    /\ []((BothExited /\ held = NoObs /\ obs_collection = <<>>) =>
            /\ \A s \in SpanIds : spans[s].drops = 1 /\ spans[s].closed
            /\ Owned = {}
            /\ metrics.made = Len(spans)
            /\ metrics.live = 0)

\* Both tasks have exited and every way out was taken with Observations
\* at stake: two were never received by the stats loop and a third never
\* left the monitor, one failed to be forwarded, one was forwarded but
\* never received downstream; all are disposed and the gauge reads 0.
C22_Witness ==
    /\ BothExited
    /\ held = NoObs
    /\ obs_collection = <<>>
    /\ Len(spans) >= Len(received) + 3
    /\ Len(processed) > Len(forwarded)
    /\ Len(forwarded) > Len(delivered)
    /\ Len(delivered) >= 1
    /\ metrics.live = 0
    /\ \A s \in SpanIds : Disposed(s)
====
